---- MODULE Spec2Model ----
(***************************************************************************)
(* Route-finding search over a road map: RoadMap, RouteProblem, Node and   *)
(* Frontier of route.py, and the five search drivers (BFS, DFS,            *)
(* uniform_cost_search, greedy_search, a_star_search).                     *)
(*                                                                         *)
(* Locations are positive integers (their order is the order Node.__lt__   *)
(* uses), road names are positive integers, costs and heuristic values are *)
(* naturals.  Python's None is 0 for a location, a road name or a cost     *)
(* lookup that found nothing, and the empty sequence for an object.        *)
(***************************************************************************)
EXTENDS Integers, Sequences, FiniteSets, TLC

\* ------------------------------------------------------------------------
\* Bounds of the model and constants of the program
\* ------------------------------------------------------------------------

\* route.py: depth_limit = 20
depth_limit == 20

\* largest cost of a road of the small maps
MaxCost == 2

\* largest value of a heuristic table
MaxH == 1

\* cap of vars.node_expansion_count (no run of the program reaches it)
MaxExpansions == 80

\* largest number of entries of a frontier exercised on its own
MaxFringe == 4

\* the locations of the small maps are 1..NLoc
NLoc == 4

\* longest road list given to path_cost
MaxPath == 2

None == 0

\* what a cost lookup answers when there is no road (None, told from a cost of 0)
NoCost == 0 - 1

\* the reference a node keeps to the heuristic function object
TheHeuristic == 1

\* ------------------------------------------------------------------------
\* Python dict helpers: a dict is a function whose DOMAIN is its key set
\* ------------------------------------------------------------------------

EmptyDict == [k \in {} |-> 0]

DictSet(d, k, v) == [x \in (DOMAIN d) \cup {k} |-> IF x = k THEN v ELSE d[x]]

setdefault(d, k, v) == IF k \in DOMAIN d THEN d ELSE DictSet(d, k, v)

\* ------------------------------------------------------------------------
\* RoadMap
\*   connection_dict : start -> (end -> cost)
\*   road_dict       : start -> sequence of <<name, end>> in insertion order
\*   loc_dict        : loc -> <<x, y>>
\* ------------------------------------------------------------------------

EmptyMap == [connection_dict |-> EmptyDict, road_dict |-> EmptyDict, loc_dict |-> EmptyDict]

add_location(m, loc, longitude, latitude) ==
    [m EXCEPT !.loc_dict = DictSet(m.loc_dict, loc, <<longitude, latitude>>)]

\* position of a road name in an ordered dict of roads, 0 when absent
RoadIndex(roads, name) ==
    IF \E i \in 1..Len(roads) : roads[i][1] = name
    THEN CHOOSE i \in 1..Len(roads) : roads[i][1] = name
    ELSE 0

\* roads[name] = end on an insertion-ordered dict
RoadsSet(roads, name, end) ==
    IF RoadIndex(roads, name) = 0
    THEN Append(roads, <<name, end>>)
    ELSE [roads EXCEPT ![RoadIndex(roads, name)] = <<name, end>>]

add_road(m, start, end, name, cost) ==
    LET cd  == setdefault(m.connection_dict, start, EmptyDict)
        cd2 == [cd EXCEPT ![start] = DictSet(cd[start], end, cost)]
        rd  == setdefault(m.road_dict, start, <<>>)
        rd2 == [rd EXCEPT ![start] = RoadsSet(rd[start], name, end)]
    IN  [m EXCEPT !.connection_dict = cd2,
                  !.road_dict = IF name # None THEN rd2 ELSE m.road_dict]

\* the map after get(start, ...): setdefault inserts an empty entry
get_map(m, start) ==
    [m EXCEPT !.connection_dict = setdefault(m.connection_dict, start, EmptyDict)]

\* get with the lookup made under the start location instead of the end
get_wrong_key(m, start, end) ==
    LET successors == get_map(m, start).connection_dict[start]
    IN  IF start \in DOMAIN successors THEN successors[start] ELSE NoCost

\* get(start, end): the cost of the road, None (NoCost) when there is none
get(m, start, end) ==
    LET successors == get_map(m, start).connection_dict[start]
    IN  IF end \in DOMAIN successors THEN successors[end] ELSE NoCost

\* the map after get_result(start, ...)
get_result_map(m, start) ==
    [m EXCEPT !.road_dict = setdefault(m.road_dict, start, <<>>)]

\* get_result(start): the ordered dict of the roads leaving start
get_result_dict(m, start) == get_result_map(m, start).road_dict[start]

\* get_result(start, road): where the road leads, None when there is none
get_result(m, start, road) ==
    LET successors == get_result_dict(m, start)
    IN  IF RoadIndex(successors, road) = 0 THEN None
        ELSE successors[RoadIndex(successors, road)][2]

\* path_cost(start, road_list), lines 87-98: the loop over the roads from loc
\* with the total so far; the answer is the value returned (raises when a
\* road resolves but has no cost: float + None) and the map afterwards
RECURSIVE path_cost_loop(_, _, _, _)
path_cost_loop(m, loc, road_list, total_cost) ==
    IF road_list = <<>> THEN [value |-> total_cost, raises |-> FALSE, map |-> m]
    ELSE LET road     == Head(road_list)
             next_loc == get_result(m, loc, road)
             m1       == get_result_map(m, loc)
         IN  IF next_loc = None
             THEN [value |-> 0, raises |-> FALSE, map |-> m1]
             ELSE IF get(m1, loc, next_loc) = NoCost
                  THEN [value |-> NoCost, raises |-> TRUE, map |-> get_map(m1, loc)]
                  ELSE path_cost_loop(get_map(m1, loc), next_loc, Tail(road_list),
                                      total_cost + get(m1, loc, next_loc))

\* path_cost that answers the cost of the roads walked so far when a road
\* does not resolve
RECURSIVE path_cost_partial_sum_loop(_, _, _, _)
path_cost_partial_sum_loop(m, loc, road_list, total_cost) ==
    IF road_list = <<>> \/ get_result(m, loc, Head(road_list)) = None
    THEN [value |-> total_cost, raises |-> FALSE, map |-> get_result_map(m, loc)]
    ELSE path_cost_partial_sum_loop(get_map(get_result_map(m, loc), loc),
                                    get_result(m, loc, Head(road_list)), Tail(road_list),
                                    total_cost + get(m, loc, get_result(m, loc, Head(road_list))))

RoadMap_path_cost_partial_sum(m, start, road_list) == path_cost_partial_sum_loop(m, start, road_list, 0)

\* RoadMap.path_cost(start, road_list)
RoadMap_path_cost(m, start, road_list) == path_cost_loop(m, start, road_list, 0)

\* the map after location_coordinates(loc): setdefault inserts (0.0, 0.0)
location_coordinates_map(m, loc) ==
    [m EXCEPT !.loc_dict = setdefault(m.loc_dict, loc, <<0, 0>>)]

\* location_coordinates(loc) raises: "if x and y" is false
location_coordinates_raises(m, loc) ==
    LET xy == location_coordinates_map(m, loc).loc_dict[loc]
    IN  ~(xy[1] # 0 /\ xy[2] # 0)

\* location_coordinates(loc): the pair returned when it does not raise
location_coordinates(m, loc) == location_coordinates_map(m, loc).loc_dict[loc]

\* ------------------------------------------------------------------------
\* RouteProblem: [start, goal] over the map
\* ------------------------------------------------------------------------

\* actions(loc): the road names leaving loc, in dict order
actions(m, loc) ==
    LET d == get_result_dict(m, loc) IN [i \in 1..Len(d) |-> d[i][1]]

result(m, loc, road) == get_result(m, loc, road)

\* is_goal(x): x == self.goal; x is a location here
is_goal(p, loc) == loc = p.goal

\* is_goal(node): Node.__eq__ answers False for anything that is not a Node
is_goal_node(p, node) == FALSE

action_cost(m, start, end) == get(m, start, end)

\* ------------------------------------------------------------------------
\* Node
\* ------------------------------------------------------------------------

\* Node with the depth of a root set to 1
Node_root_depth_one(loc, parent, road, path_cost, h_eval, h_fun) ==
    [loc |-> loc, parent |-> parent, road |-> road, path_cost |-> path_cost,
     h_eval |-> h_eval, h_fun |-> h_fun,
     depth |-> IF parent # <<>> THEN parent[1].depth + 1 ELSE 1]

\* Node(loc, parent, road, path_cost, h_eval, h_fun); parent is <<>> or <<node>>,
\* h_fun is None or TheHeuristic
Node(loc, parent, road, path_cost, h_eval, h_fun) ==
    [loc |-> loc, parent |-> parent, road |-> road, path_cost |-> path_cost,
     h_eval |-> h_eval, h_fun |-> h_fun,
     depth |-> IF parent # <<>> THEN parent[1].depth + 1 ELSE 0]

\* Node.__lt__
NodeLt(n1, n2) == n1.loc < n2.loc

\* __eq__ that also compares the path costs
NodeEq_with_cost(n1, n2) == n1.loc = n2.loc /\ n1.path_cost = n2.path_cost

\* Node.__eq__ between nodes
NodeEq(n1, n2) == n1.loc = n2.loc

\* Node.__hash__: hash(self.loc); the hash of a small int is the int
NodeHash(n) == n.loc

\* Node.value(sort_by)
value(n, sort_by) ==
    IF sort_by = "g" THEN n.path_cost
    ELSE IF sort_by = "h" THEN n.h_eval
    ELSE IF sort_by = "f" THEN n.path_cost + n.h_eval
    ELSE 0

\* h_fun.h_cost(loc) of the heuristic table hf
h_cost(hf, loc) == hf[loc]

\* child_node with the cost of the road alone as the child's path_cost
child_node_road_cost_only(n, m, hf, road) ==
    LET child_loc  == result(m, n.loc, road)
        child_cost == action_cost(m, n.loc, child_loc)
        child_eval == IF n.h_fun # None THEN h_cost(hf, child_loc) ELSE 0
    IN  Node(child_loc, <<n>>, road, child_cost, child_eval, n.h_fun)

\* child_node with one more than the cost of the road added to the path cost
child_node_cost_plus_one(n, m, hf, road) ==
    LET child_loc  == result(m, n.loc, road)
        child_cost == n.path_cost + action_cost(m, n.loc, child_loc) + 1
        child_eval == IF n.h_fun # None THEN h_cost(hf, child_loc) ELSE 0
    IN  Node(child_loc, <<n>>, road, child_cost, child_eval, n.h_fun)

\* Node.child_node(problem, road): n.h_fun is None or refers to the heuristic
\* object, whose table is hf
child_node(n, m, hf, road) ==
    LET child_loc  == result(m, n.loc, road)
        child_cost == n.path_cost + action_cost(m, n.loc, child_loc)
        child_eval == IF n.h_fun # None THEN h_cost(hf, child_loc) ELSE 0
    IN  Node(child_loc, <<n>>, road, child_cost, child_eval, n.h_fun)

\* expand with the depth test "depth > depth_limit"
expand_one_deeper(n, m, hf) ==
    IF n.depth > depth_limit THEN <<>>
    ELSE LET roads == actions(m, n.loc)
         IN  [i \in 1..Len(roads) |-> child_node(n, m, hf, roads[i])]

\* expand with the depth test "depth >= depth_limit - 1"
expand_one_short(n, m, hf) ==
    IF n.depth >= depth_limit - 1 THEN <<>>
    ELSE LET roads == actions(m, n.loc)
         IN  [i \in 1..Len(roads) |-> child_node(n, m, hf, roads[i])]

\* expand without the depth test
expand_no_limit(n, m, hf) ==
    LET roads == actions(m, n.loc)
    IN  [i \in 1..Len(roads) |-> child_node(n, m, hf, roads[i])]

\* Node.expand(problem): the children, in the order of the roads
expand(n, m, hf) ==
    IF n.depth >= depth_limit THEN <<>>
    ELSE LET roads == actions(m, n.loc)
         IN  [i \in 1..Len(roads) |-> child_node(n, m, hf, roads[i])]

\* expand raises TypeError: child_node adds None to the path cost
expand_raises(n, m) ==
    /\ n.depth < depth_limit
    /\ \E i \in 1..Len(actions(m, n.loc)) :
          action_cost(m, n.loc, result(m, n.loc, actions(m, n.loc)[i])) = NoCost

\* the map after expand: actions() goes through get_result's setdefault
expand_map(n, m) ==
    IF n.depth >= depth_limit THEN m ELSE get_result_map(m, n.loc)

\* Node.path(): the nodes from the root to n
RECURSIVE path(_)
path(n) == IF n.parent = <<>> THEN <<n>> ELSE Append(path(n.parent[1]), n)

\* solution() that keeps the road of the root
solution_with_root(n) == LET p == path(n) IN [i \in 1..Len(p) |-> p[i].road]

\* Node.solution(): the road names from the root to n
solution(n) == LET p == path(n) IN [i \in 1..(Len(p) - 1) |-> p[i + 1].road]

\* ------------------------------------------------------------------------
\* heapq on a list of (value, node) tuples; positions are 0-based as in
\* the library, the sequence is 1-based
\* ------------------------------------------------------------------------

\* a comparison of the tuples by the locations of their nodes alone
TupleLt_by_location(a, b) == NodeLt(a[2], b[2])

\* (v1, n1) < (v2, n2) on Python tuples: the first unequal component decides
TupleLt(a, b) ==
    IF a[1] # b[1] THEN a[1] < b[1]
    ELSE IF NodeEq(a[2], b[2]) THEN FALSE
    ELSE NodeLt(a[2], b[2])

RECURSIVE siftdown_loop(_, _, _, _)
siftdown_loop(heap, startpos, pos, newitem) ==
    IF pos > startpos
    THEN LET parentpos == (pos - 1) \div 2
             parent    == heap[parentpos + 1]
         IN  IF TupleLt(newitem, parent)
             THEN siftdown_loop([heap EXCEPT ![pos + 1] = parent], startpos, parentpos, newitem)
             ELSE [heap EXCEPT ![pos + 1] = newitem]
    ELSE [heap EXCEPT ![pos + 1] = newitem]

\* heapq._siftdown(heap, startpos, pos)
siftdown(heap, startpos, pos) == siftdown_loop(heap, startpos, pos, heap[pos + 1])

RECURSIVE siftup_loop(_, _, _, _)
siftup_loop(heap, startpos, pos, newitem) ==
    LET endpos   == Len(heap)
        childpos == 2 * pos + 1
    IN  IF childpos < endpos
        THEN LET rightpos == childpos + 1
                 c == IF rightpos < endpos /\ ~TupleLt(heap[childpos + 1], heap[rightpos + 1])
                      THEN rightpos ELSE childpos
             IN  siftup_loop([heap EXCEPT ![pos + 1] = heap[c + 1]], startpos, c, newitem)
        ELSE siftdown([heap EXCEPT ![pos + 1] = newitem], startpos, pos)

\* heapq._siftup(heap, pos)
siftup(heap, pos) == siftup_loop(heap, pos, pos, heap[pos + 1])

\* heapq.heappush(heap, item)
heappush(heap, item) == siftdown(Append(heap, item), 0, Len(heap))

\* heapq.heappop(heap): the heap after the pop (heap is not empty)
heappop_heap(heap) ==
    LET lastelt == heap[Len(heap)]
        rest    == SubSeq(heap, 1, Len(heap) - 1)
    IN  IF rest # <<>> THEN siftup([rest EXCEPT ![1] = lastelt], 0) ELSE rest

\* heapq.heappop(heap): the item returned
heappop_item(heap) == heap[1]

RECURSIVE heapify_loop(_, _)
heapify_loop(x, i) == IF i < 0 THEN x ELSE heapify_loop(siftup(x, i), i - 1)

\* heapq.heapify(x)
heapify(x) == heapify_loop(x, (Len(x) \div 2) - 1)

\* ------------------------------------------------------------------------
\* Frontier of route.py: [sort_by, fringe]
\* ------------------------------------------------------------------------

\* Frontier(root_node, sort_by)
Frontier(root_node, sort_by) ==
    [sort_by |-> sort_by, fringe |-> heapify(<<<<value(root_node, sort_by), root_node>>>>)]

\* is_empty that never answers True
is_empty_never(f) == FALSE

\* Frontier.is_empty
is_empty(f) == Len(f.fringe) = 0

\* Frontier.__contains__ / Frontier.contains
contains(f, query) == \E i \in 1..Len(f.fringe) : NodeEq(f.fringe[i][2], query)

\* the first match, and the last entry when nothing matches
FirstMatchOrLast(f, query) ==
    IF contains(f, query)
    THEN CHOOSE i \in 1..Len(f.fringe) :
            /\ NodeEq(f.fringe[i][2], query)
            /\ \A j \in 1..(i - 1) : ~NodeEq(f.fringe[j][2], query)
    ELSE Len(f.fringe)

\* index of the first entry of the fringe that matches the query, 0 if none
FirstMatch(f, query) ==
    IF contains(f, query)
    THEN CHOOSE i \in 1..Len(f.fringe) :
            /\ NodeEq(f.fringe[i][2], query)
            /\ \A j \in 1..(i - 1) : ~NodeEq(f.fringe[j][2], query)
    ELSE 0

\* __getitem__ and __delitem__ raise KeyError: no entry matches the query
KeyError(f, query) == FirstMatch(f, query) = 0

\* Frontier.__getitem__ (the query matches an entry; KeyError otherwise)
getitem(f, query) == f.fringe[FirstMatch(f, query)][1]

\* __delitem__ without the heapify after the deletion
delitem_no_heapify(f, query) ==
    LET i == FirstMatch(f, query)
    IN  [f EXCEPT !.fringe = SubSeq(f.fringe, 1, i - 1) \o SubSeq(f.fringe, i + 1, Len(f.fringe))]

\* Frontier.__delitem__ (the query matches an entry; KeyError otherwise)
delitem(f, query) ==
    LET i == FirstMatch(f, query)
    IN  [f EXCEPT !.fringe = heapify(SubSeq(f.fringe, 1, i - 1) \o SubSeq(f.fringe, i + 1, Len(f.fringe)))]

\* add by list.append, without heappush
add_append(f, n) == [f EXCEPT !.fringe = Append(f.fringe, <<value(n, f.sort_by), n>>)]

\* Frontier.add(node) for a single node
add(f, n) == [f EXCEPT !.fringe = heappush(f.fringe, <<value(n, f.sort_by), n>>)]

\* Frontier.add(nodes) for a list of nodes
RECURSIVE add_list(_, _)
add_list(f, nodes) ==
    IF nodes = <<>> THEN f ELSE add_list(add(f, Head(nodes)), Tail(nodes))

\* Frontier.pop raises Exception: "if self.fringe" is false
pop_raises(f) == Len(f.fringe) = 0

\* Frontier.pop: the frontier after the pop (the fringe is not empty)
pop_frontier(f) == [f EXCEPT !.fringe = heappop_heap(f.fringe)]

\* Frontier.pop: the node returned
pop_node(f) == heappop_item(f.fringe)[2]

\* ------------------------------------------------------------------------
\* Frontier of Assignment 0 (a queue, or a stack when the second argument
\* is True): entries are kept in insertion order
\* ------------------------------------------------------------------------

\* Frontier(root_node, stack) that is a stack whatever its second argument
QueueFrontier_always_stack(root_node, stack) ==
    [sort_by |-> "lifo", fringe |-> <<<<0, root_node>>>>]

\* Frontier(root_node, stack)
QueueFrontier(root_node, stack) ==
    [sort_by |-> IF stack THEN "lifo" ELSE "fifo", fringe |-> <<<<0, root_node>>>>]

\* Frontier.add(node) of the queue / stack
queue_add(f, n) == [f EXCEPT !.fringe = Append(f.fringe, <<0, n>>)]

\* Frontier.pop of the queue / stack raises: it is empty
queue_pop_raises(f) == Len(f.fringe) = 0

\* Frontier.pop of the queue / stack: the node returned
queue_pop_node(f) ==
    IF f.sort_by = "lifo" THEN f.fringe[Len(f.fringe)][2] ELSE f.fringe[1][2]

\* Frontier.pop of the queue / stack: the frontier after the pop
queue_pop_frontier(f) ==
    [f EXCEPT !.fringe = IF f.sort_by = "lifo"
                         THEN SubSeq(f.fringe, 1, Len(f.fringe) - 1)
                         ELSE Tail(f.fringe)]

\* ------------------------------------------------------------------------
\* State
\* ------------------------------------------------------------------------

VARIABLES
    roadmap,               \* the RoadMap: connection_dict, road_dict, loc_dict
    map0,                  \* history: the map as it was built, before the call
    problem,               \* the RouteProblem: start, goal
    alg,                   \* the search function called
    repeat_check,          \* its repeat_check argument
    h,                     \* the heuristic table behind h.h_cost
    pc,                    \* "start", "loop", "done", an error (or the phase of a run on its own)
    frontier,              \* the Frontier: sort_by, fringe
    reachedNodes,          \* the reached / visited list
    returned,              \* <<>> before the return and for None, <<node>> for a node
    node_expansion_count,  \* vars.node_expansion_count
    popped,                \* history: key, loc, path_cost, depth of the nodes popped
    last_expand            \* history: <<>> or the last call of expand, loc, depth, children

vars == <<roadmap, map0, problem, alg, repeat_check, h, pc, frontier, reachedNodes,
          returned, node_expansion_count, popped, last_expand>>

\* a membership test that never finds the node
InList_never(n, list) == FALSE

\* a membership test that looks at the last node of the list only
InList_last_only(n, list) == list # <<>> /\ NodeEq(list[Len(list)], n)

\* x in list, by Node.__eq__
InList(n, list) == \E i \in 1..Len(list) : NodeEq(list[i], n)

NoFrontier == [sort_by |-> "g", fringe |-> <<>>]

\* ------------------------------------------------------------------------
\* The maps and problems the searches are run on
\* ------------------------------------------------------------------------

\* a map built by add_location for 1..n and add_road for each call of the list
RECURSIVE AddLocations(_, _)
AddLocations(m, n) ==
    IF n = 0 THEN m ELSE add_location(AddLocations(m, n - 1), n, n, n)

RECURSIVE AddRoads(_, _, _)
AddRoads(m, calls, i) ==
    IF i > Len(calls) THEN m
    ELSE AddRoads(add_road(m, calls[i][1], calls[i][2], calls[i][3], calls[i][4]), calls, i + 1)

BuildMap(n, calls) == AddRoads(AddLocations(EmptyMap, n), calls, 1)

RoadName(start, end) == 100 * start + end

\* a road call, or nothing when the cost option is "absent" (-1)
Road(start, end, cost) ==
    IF cost < 0 THEN <<>> ELSE <<<<start, end, RoadName(start, end), cost>>>>

\* the roads of a small map: a diamond 1 -> {3, 2} -> 4 with an optional way
\* back 2 -> 1, and a tail 4 -> 5 -> .. -> NLoc
SmallRoads(a, b, c, d, e) ==
    Road(1, 3, b) \o Road(1, 2, a) \o Road(2, 4, c) \o Road(3, 4, d) \o Road(2, 1, e)
    \o [i \in 1..(NLoc - 4) |-> <<i + 3, i + 4, RoadName(i + 3, i + 4), 1>>]

SmallMaps ==
    { BuildMap(NLoc, SmallRoads(a, b, c, d, e)) :
        a \in {1, MaxCost}, b \in {-1} \cup 1..MaxCost, c \in {-1} \cup 1..MaxCost,
        d \in {-1, 0, 1}, e \in {-1, 1} }

\* the long map: a chain 1 -> 2 -> .. -> depth_limit + 2 of roads of cost 1,
\* and a costly side road 1 -> Side -> depth_limit + 1
Far == depth_limit + 2
Side == depth_limit + 3
SideCost == depth_limit + 10

\* a location one road after the end of the chain
Beyond == depth_limit + 4

LongRoads ==
    <<<<1, Side, RoadName(1, Side), SideCost>>>>
    \o [i \in 1..(Far - 1) |-> <<i, i + 1, RoadName(i, i + 1), 1>>]
    \o <<<<Side, Far - 1, RoadName(Side, Far - 1), 1>>>>
    \o <<<<Far, Beyond, RoadName(Far, Beyond), 1>>>>

LongMap == BuildMap(Beyond, LongRoads)

Locations(m) == DOMAIN m.loc_dict

ZeroTable(m) == [l \in Locations(m) |-> 0]

\* the heuristic tables tried on a map: zero everywhere but at one of the two
\* locations in the middle of the diamond
Tables(m) ==
    {ZeroTable(m)} \cup
    { [l \in Locations(m) |-> IF l = k THEN v ELSE 0] : k \in {2, 3}, v \in 1..MaxH }

Algorithms == {"BFS", "DFS", "ucost", "greedy", "astar"}

Informed == {"greedy", "astar"}

SearchInit ==
    /\ \/ /\ roadmap \in SmallMaps
          /\ problem \in [start : 1..NLoc, goal : 1..NLoc]
       \/ /\ roadmap = LongMap
          /\ problem \in [start : {1, 2}, goal : {Far, Beyond}]
    /\ map0 = roadmap
    /\ alg \in Algorithms
    /\ repeat_check \in BOOLEAN
    /\ h \in IF alg \in Informed THEN Tables(roadmap) ELSE {ZeroTable(roadmap)}
    /\ pc = "start"
    /\ frontier = NoFrontier
    /\ reachedNodes = <<>>
    /\ returned = <<>>
    /\ node_expansion_count = 0
    /\ popped = <<>>
    /\ last_expand = <<>>

\* ------------------------------------------------------------------------
\* Steps shared by the drivers' loops
\* ------------------------------------------------------------------------

PopRecord(f, n) ==
    [key |-> value(n, f.sort_by), loc |-> n.loc, path_cost |-> n.path_cost, depth |-> n.depth]

ExpandRecord(n, children) ==
    <<[loc |-> n.loc, depth |-> n.depth, children |-> Len(children),
       depths |-> {children[i].depth : i \in 1..Len(children)}]>>

\* the record of an expansion of uniform_cost_search and a_star_search: with
\* repeat checks, lookups counts the children whose location was reached and
\* is in the frontier, for which frontier[child] is asked
LookupRecord(n, children, f, reached, rc) ==
    <<[loc |-> n.loc, depth |-> n.depth, children |-> Len(children),
       depths |-> {children[i].depth : i \in 1..Len(children)},
       lookups |-> IF rc
                   THEN Cardinality({ i \in 1..Len(children) :
                                        InList(children[i], reached) /\ contains(f, children[i]) })
                   ELSE 0]>>

\* return x
Return(x) ==
    /\ pc' = "done"
    /\ returned' = x

\* ------------------------------------------------------------------------
\* ucost.py: uniform_cost_search(problem, repeat_check)
\* ------------------------------------------------------------------------

\* lines 35-45: the for loop over the children
RECURSIVE ucost_for(_, _, _, _, _)
ucost_for(children, i, f, reached, rc) ==
    IF i > Len(children) THEN [frontier |-> f, reachedNodes |-> reached, raises |-> FALSE]
    ELSE LET child == children[i]
         IN  IF rc
             THEN IF InList(child, reached)
                  THEN IF contains(f, child) /\ KeyError(f, child)
                       THEN [frontier |-> f, reachedNodes |-> reached, raises |-> TRUE]
                       ELSE IF contains(f, child) /\ getitem(f, child) > getitem(f, child)
                       THEN ucost_for(children, i + 1, add(delitem(f, child), child), reached, rc)
                       ELSE ucost_for(children, i + 1, f, reached, rc)
                  ELSE ucost_for(children, i + 1, add(f, child), Append(reached, child), rc)
             ELSE ucost_for(children, i + 1, add(f, child), reached, rc)

\* lines 31-46 as a function: the call runs to its return (<<>> for None)
RECURSIVE ucost_while(_, _, _, _, _)
ucost_while(m, p, rc, f, reached) ==
    IF is_empty(f) THEN <<>>
    ELSE LET node == pop_node(f)
             f1   == pop_frontier(f)
         IN  IF is_goal(p, node.loc) THEN <<node>>
             ELSE LET r == ucost_for(expand(node, m, <<>>), 1, f1, reached, rc)
                  IN  ucost_while(expand_map(node, m), p, rc, r.frontier, r.reachedNodes)

\* uniform_cost_search(problem, repeat_check) as a function
uniform_cost_search(m, p, rc) ==
    LET node == Node(p.start, <<>>, None, 0, 0, None)
    IN  IF is_goal(p, node.loc) THEN <<node>>
        ELSE ucost_while(m, p, rc, Frontier(node, "g"), <<node>>)

\* lines 26-30
ucost_begin ==
    /\ pc = "start" /\ alg = "ucost"
    /\ LET node == Node(problem.start, <<>>, None, 0, 0, None)
       IN  IF is_goal(problem, node.loc)
           THEN /\ Return(<<node>>)
                /\ UNCHANGED <<frontier, reachedNodes>>
           ELSE /\ frontier' = Frontier(node, "g")
                /\ reachedNodes' = <<node>>
                /\ pc' = "loop"
                /\ UNCHANGED returned
    /\ UNCHANGED <<roadmap, map0, problem, alg, repeat_check, h, node_expansion_count, popped, last_expand>>

\* lines 31-46: one test of the while condition and one pass of its body
ucost_loop ==
    /\ pc = "loop" /\ alg = "ucost"
    /\ IF is_empty(frontier)
       THEN /\ Return(<<>>)
            /\ UNCHANGED <<roadmap, frontier, reachedNodes, node_expansion_count, popped, last_expand>>
       ELSE IF pop_raises(frontier)
       THEN /\ pc' = "Exception"
            /\ UNCHANGED <<roadmap, frontier, reachedNodes, returned, node_expansion_count, popped, last_expand>>
       ELSE LET node == pop_node(frontier)
                f1   == pop_frontier(frontier)
            IN  /\ popped' = Append(popped, PopRecord(frontier, node))
                /\ IF is_goal(problem, node.loc)
                   THEN /\ Return(<<node>>)
                        /\ frontier' = f1
                        /\ UNCHANGED <<roadmap, reachedNodes, node_expansion_count, last_expand>>
                   ELSE LET children == expand(node, roadmap, h)
                            r == ucost_for(children, 1, f1, reachedNodes, repeat_check)
                        IN  /\ node_expansion_count < MaxExpansions
                            /\ node_expansion_count' = node_expansion_count + 1
                            /\ roadmap' = expand_map(node, roadmap)
                            /\ IF expand_raises(node, roadmap)
                               THEN /\ pc' = "TypeError"
                                    /\ frontier' = f1
                                    /\ UNCHANGED <<reachedNodes, returned, last_expand>>
                               ELSE /\ last_expand' = LookupRecord(node, children, f1, reachedNodes, repeat_check)
                                    /\ frontier' = r.frontier
                                    /\ reachedNodes' = r.reachedNodes
                                    /\ pc' = IF r.raises THEN "KeyError" ELSE pc
                                    /\ UNCHANGED returned
    /\ UNCHANGED <<map0, problem, alg, repeat_check, h>>

\* ------------------------------------------------------------------------
\* astar.py: a_star_search(problem, h, repeat_check)
\* ------------------------------------------------------------------------

\* lines 37-47: the for loop over the children
RECURSIVE astar_for(_, _, _, _, _)
astar_for(children, i, f, reached, rc) ==
    IF i > Len(children) THEN [frontier |-> f, reachedNodes |-> reached, raises |-> FALSE]
    ELSE LET child == children[i]
         IN  IF rc
             THEN IF InList(child, reached)
                  THEN IF contains(f, child) /\ KeyError(f, child)
                       THEN [frontier |-> f, reachedNodes |-> reached, raises |-> TRUE]
                       ELSE IF contains(f, child) /\ getitem(f, child) > getitem(f, child)
                       THEN astar_for(children, i + 1, add(delitem(f, child), child), reached, rc)
                       ELSE astar_for(children, i + 1, f, reached, rc)
                  ELSE astar_for(children, i + 1, add(f, child), Append(reached, child), rc)
             ELSE astar_for(children, i + 1, add(f, child), reached, rc)

\* lines 26-31
astar_begin ==
    /\ pc = "start" /\ alg = "astar"
    /\ LET node == Node(problem.start, <<>>, None, 0, 0, TheHeuristic)
       IN  IF is_goal(problem, node.loc)
           THEN /\ Return(<<node>>)
                /\ UNCHANGED <<frontier, reachedNodes>>
           ELSE /\ frontier' = Frontier(node, "f")
                /\ reachedNodes' = <<node>>
                /\ pc' = "loop"
                /\ UNCHANGED returned
    /\ UNCHANGED <<roadmap, map0, problem, alg, repeat_check, h, node_expansion_count, popped, last_expand>>

\* lines 33-49
astar_loop ==
    /\ pc = "loop" /\ alg = "astar"
    /\ IF is_empty(frontier)
       THEN /\ Return(<<>>)
            /\ UNCHANGED <<roadmap, frontier, reachedNodes, node_expansion_count, popped, last_expand>>
       ELSE IF pop_raises(frontier)
       THEN /\ pc' = "Exception"
            /\ UNCHANGED <<roadmap, frontier, reachedNodes, returned, node_expansion_count, popped, last_expand>>
       ELSE LET node == pop_node(frontier)
                f1   == pop_frontier(frontier)
            IN  /\ popped' = Append(popped, PopRecord(frontier, node))
                /\ IF is_goal(problem, node.loc)
                   THEN /\ Return(<<node>>)
                        /\ frontier' = f1
                        /\ UNCHANGED <<roadmap, reachedNodes, node_expansion_count, last_expand>>
                   ELSE LET children == expand(node, roadmap, h)
                            r == astar_for(children, 1, f1, reachedNodes, repeat_check)
                        IN  /\ node_expansion_count < MaxExpansions
                            /\ node_expansion_count' = node_expansion_count + 1
                            /\ roadmap' = expand_map(node, roadmap)
                            /\ IF expand_raises(node, roadmap)
                               THEN /\ pc' = "TypeError"
                                    /\ frontier' = f1
                                    /\ UNCHANGED <<reachedNodes, returned, last_expand>>
                               ELSE /\ last_expand' = LookupRecord(node, children, f1, reachedNodes, repeat_check)
                                    /\ frontier' = r.frontier
                                    /\ reachedNodes' = r.reachedNodes
                                    /\ pc' = IF r.raises THEN "KeyError" ELSE pc
                                    /\ UNCHANGED returned
    /\ UNCHANGED <<map0, problem, alg, repeat_check, h>>

\* ------------------------------------------------------------------------
\* greedy.py: greedy_search(problem, h, repeat_check)
\* ------------------------------------------------------------------------

\* lines 38-44: the for loop over the children
RECURSIVE greedy_for(_, _, _, _, _)
greedy_for(children, i, f, reached, rc) ==
    IF i > Len(children) THEN [frontier |-> f, reachedNodes |-> reached]
    ELSE LET child == children[i]
         IN  IF rc
             THEN IF ~InList(child, reached)
                  THEN greedy_for(children, i + 1, add(f, child), Append(reached, child), rc)
                  ELSE greedy_for(children, i + 1, f, reached, rc)
             ELSE greedy_for(children, i + 1, add(f, child), reached, rc)

\* lines 27-32
greedy_begin ==
    /\ pc = "start" /\ alg = "greedy"
    /\ LET node == Node(problem.start, <<>>, None, 0, 0, TheHeuristic)
       IN  IF is_goal(problem, node.loc)
           THEN /\ Return(<<node>>)
                /\ UNCHANGED <<frontier, reachedNodes>>
           ELSE /\ frontier' = Frontier(node, "h")
                /\ reachedNodes' = <<node>>
                /\ pc' = "loop"
                /\ UNCHANGED returned
    /\ UNCHANGED <<roadmap, map0, problem, alg, repeat_check, h, node_expansion_count, popped, last_expand>>

\* lines 34-45
greedy_loop ==
    /\ pc = "loop" /\ alg = "greedy"
    /\ IF is_empty(frontier)
       THEN /\ Return(<<>>)
            /\ UNCHANGED <<roadmap, frontier, reachedNodes, node_expansion_count, popped, last_expand>>
       ELSE IF pop_raises(frontier)
       THEN /\ pc' = "Exception"
            /\ UNCHANGED <<roadmap, frontier, reachedNodes, returned, node_expansion_count, popped, last_expand>>
       ELSE LET node == pop_node(frontier)
                f1   == pop_frontier(frontier)
            IN  /\ popped' = Append(popped, PopRecord(frontier, node))
                /\ IF is_goal(problem, node.loc)
                   THEN /\ Return(<<node>>)
                        /\ frontier' = f1
                        /\ UNCHANGED <<roadmap, reachedNodes, node_expansion_count, last_expand>>
                   ELSE LET children == expand(node, roadmap, h)
                            r == greedy_for(children, 1, f1, reachedNodes, repeat_check)
                        IN  /\ node_expansion_count < MaxExpansions
                            /\ node_expansion_count' = node_expansion_count + 1
                            /\ roadmap' = expand_map(node, roadmap)
                            /\ IF expand_raises(node, roadmap)
                               THEN /\ pc' = "TypeError"
                                    /\ frontier' = f1
                                    /\ UNCHANGED <<reachedNodes, returned, last_expand>>
                               ELSE /\ last_expand' = ExpandRecord(node, children)
                                    /\ frontier' = r.frontier
                                    /\ reachedNodes' = r.reachedNodes
                                    /\ UNCHANGED <<pc, returned>>
    /\ UNCHANGED <<map0, problem, alg, repeat_check, h>>

\* ------------------------------------------------------------------------
\* bfs.py: BFS(problem, repeat_check) and dfs.py: DFS(problem, repeat_check)
\* ------------------------------------------------------------------------

\* bfs.py lines 35-41: the for loop over the children
RECURSIVE BFS_for(_, _, _, _, _)
BFS_for(children, i, queue, visited, rc) ==
    IF i > Len(children) THEN [frontier |-> queue, reachedNodes |-> visited]
    ELSE LET node == children[i]
         IN  IF rc
             THEN IF ~InList(node, visited)
                  THEN BFS_for(children, i + 1, queue_add(queue, node), Append(visited, node), rc)
                  ELSE BFS_for(children, i + 1, queue, visited, rc)
             ELSE BFS_for(children, i + 1, queue_add(queue, node), visited, rc)

\* bfs.py lines 26-30: the first goal test is given the Node, not its location
BFS_begin ==
    /\ pc = "start" /\ alg = "BFS"
    /\ LET parent == Node(problem.start, <<>>, None, 0, 0, None)
       IN  IF is_goal_node(problem, parent)
           THEN /\ Return(<<parent>>)
                /\ UNCHANGED <<frontier, reachedNodes>>
           ELSE /\ reachedNodes' = <<parent>>
                /\ frontier' = QueueFrontier(parent, FALSE)
                /\ pc' = "loop"
                /\ UNCHANGED returned
    /\ UNCHANGED <<roadmap, map0, problem, alg, repeat_check, h, node_expansion_count, popped, last_expand>>

\* bfs.py lines 31-42
BFS_loop ==
    /\ pc = "loop" /\ alg = "BFS"
    /\ IF is_empty(frontier)
       THEN /\ Return(<<>>)
            /\ UNCHANGED <<roadmap, frontier, reachedNodes, node_expansion_count, popped, last_expand>>
       ELSE IF queue_pop_raises(frontier)
       THEN /\ pc' = "Exception"
            /\ UNCHANGED <<roadmap, frontier, reachedNodes, returned, node_expansion_count, popped, last_expand>>
       ELSE LET branch == queue_pop_node(frontier)
                f1     == queue_pop_frontier(frontier)
            IN  /\ popped' = Append(popped, PopRecord(frontier, branch))
                /\ IF is_goal(problem, branch.loc)
                   THEN /\ Return(<<branch>>)
                        /\ frontier' = f1
                        /\ UNCHANGED <<roadmap, reachedNodes, node_expansion_count, last_expand>>
                   ELSE LET children == expand(branch, roadmap, h)
                            r == BFS_for(children, 1, f1, reachedNodes, repeat_check)
                        IN  /\ node_expansion_count < MaxExpansions
                            /\ node_expansion_count' = node_expansion_count + 1
                            /\ roadmap' = expand_map(branch, roadmap)
                            /\ IF expand_raises(branch, roadmap)
                               THEN /\ pc' = "TypeError"
                                    /\ frontier' = f1
                                    /\ UNCHANGED <<reachedNodes, returned, last_expand>>
                               ELSE /\ last_expand' = ExpandRecord(branch, children)
                                    /\ frontier' = r.frontier
                                    /\ reachedNodes' = r.reachedNodes
                                    /\ UNCHANGED <<pc, returned>>
    /\ UNCHANGED <<map0, problem, alg, repeat_check, h>>

\* dfs.py lines 35-41: the for loop over the children
RECURSIVE DFS_for(_, _, _, _, _)
DFS_for(children, i, stack, visited, rc) ==
    IF i > Len(children) THEN [frontier |-> stack, reachedNodes |-> visited]
    ELSE LET node == children[i]
         IN  IF rc
             THEN IF ~InList(node, visited)
                  THEN DFS_for(children, i + 1, queue_add(stack, node), Append(visited, node), rc)
                  ELSE DFS_for(children, i + 1, stack, visited, rc)
             ELSE DFS_for(children, i + 1, queue_add(stack, node), visited, rc)

\* dfs.py lines 26-30
DFS_begin ==
    /\ pc = "start" /\ alg = "DFS"
    /\ LET parent == Node(problem.start, <<>>, None, 0, 0, None)
       IN  IF is_goal_node(problem, parent)
           THEN /\ Return(<<parent>>)
                /\ UNCHANGED <<frontier, reachedNodes>>
           ELSE /\ reachedNodes' = <<parent>>
                /\ frontier' = QueueFrontier(parent, TRUE)
                /\ pc' = "loop"
                /\ UNCHANGED returned
    /\ UNCHANGED <<roadmap, map0, problem, alg, repeat_check, h, node_expansion_count, popped, last_expand>>

\* dfs.py lines 31-42
DFS_loop ==
    /\ pc = "loop" /\ alg = "DFS"
    /\ IF is_empty(frontier)
       THEN /\ Return(<<>>)
            /\ UNCHANGED <<roadmap, frontier, reachedNodes, node_expansion_count, popped, last_expand>>
       ELSE IF queue_pop_raises(frontier)
       THEN /\ pc' = "Exception"
            /\ UNCHANGED <<roadmap, frontier, reachedNodes, returned, node_expansion_count, popped, last_expand>>
       ELSE LET branch == queue_pop_node(frontier)
                f1     == queue_pop_frontier(frontier)
            IN  /\ popped' = Append(popped, PopRecord(frontier, branch))
                /\ IF is_goal(problem, branch.loc)
                   THEN /\ Return(<<branch>>)
                        /\ frontier' = f1
                        /\ UNCHANGED <<roadmap, reachedNodes, node_expansion_count, last_expand>>
                   ELSE LET children == expand(branch, roadmap, h)
                            r == DFS_for(children, 1, f1, reachedNodes, repeat_check)
                        IN  /\ node_expansion_count < MaxExpansions
                            /\ node_expansion_count' = node_expansion_count + 1
                            /\ roadmap' = expand_map(branch, roadmap)
                            /\ IF expand_raises(branch, roadmap)
                               THEN /\ pc' = "TypeError"
                                    /\ frontier' = f1
                                    /\ UNCHANGED <<reachedNodes, returned, last_expand>>
                               ELSE /\ last_expand' = ExpandRecord(branch, children)
                                    /\ frontier' = r.frontier
                                    /\ reachedNodes' = r.reachedNodes
                                    /\ UNCHANGED <<pc, returned>>
    /\ UNCHANGED <<map0, problem, alg, repeat_check, h>>

\* ------------------------------------------------------------------------
\* A Frontier on its own: nodes are added, then popped until it is empty
\* ------------------------------------------------------------------------

\* the nodes given to the frontier
TestNodes ==
    { Node(l, <<>>, None, g, e, None) : l \in 1..2, g \in 0..1, e \in 0..1 }

FrontierInit ==
    /\ roadmap = EmptyMap
    /\ map0 = EmptyMap
    /\ problem = [start |-> None, goal |-> None]
    /\ alg = "frontier"
    /\ repeat_check = FALSE
    /\ h = <<>>
    /\ pc = "adding"
    /\ \E root \in TestNodes, sort_by \in {"g", "h", "f"} :
          frontier = Frontier(root, sort_by)
    /\ reachedNodes = <<>>
    /\ returned = <<>>
    /\ node_expansion_count = 0
    /\ popped = <<>>
    /\ last_expand = <<>>

\* frontier.add(node)
frontier_add ==
    /\ pc = "adding"
    /\ Len(frontier.fringe) < MaxFringe
    /\ \E n \in TestNodes : frontier' = add(frontier, n)
    /\ UNCHANGED <<roadmap, map0, problem, alg, repeat_check, h, pc, reachedNodes,
                   returned, node_expansion_count, popped, last_expand>>

\* frontier.add([node, node])
frontier_add_list ==
    /\ pc = "adding"
    /\ Len(frontier.fringe) + 1 < MaxFringe
    /\ \E n1 \in TestNodes, n2 \in TestNodes : frontier' = add_list(frontier, <<n1, n2>>)
    /\ UNCHANGED <<roadmap, map0, problem, alg, repeat_check, h, pc, reachedNodes,
                   returned, node_expansion_count, popped, last_expand>>

\* the caller stops adding and starts popping
frontier_drain ==
    /\ pc = "adding"
    /\ pc' = "popping"
    /\ UNCHANGED <<roadmap, map0, problem, alg, repeat_check, h, frontier, reachedNodes,
                   returned, node_expansion_count, popped, last_expand>>

\* frontier.pop() while not frontier.is_empty()
frontier_pop ==
    /\ pc = "popping"
    /\ ~is_empty(frontier)
    /\ popped' = Append(popped, PopRecord(frontier, pop_node(frontier)))
    /\ returned' = <<pop_node(frontier)>>
    /\ frontier' = pop_frontier(frontier)
    /\ UNCHANGED <<roadmap, map0, problem, alg, repeat_check, h, pc, reachedNodes,
                   node_expansion_count, last_expand>>

FrontierNext == frontier_add \/ frontier_add_list \/ frontier_drain \/ frontier_pop

SpecFrontier == FrontierInit /\ [][FrontierNext]_vars

\* ------------------------------------------------------------------------
\* A Frontier on its own, second run: add, frontier[node], del frontier[node]
\* and pop in any order
\* ------------------------------------------------------------------------

\* the nodes added and asked about: two locations, three costs each
OpsNodes ==
    { Node(l, <<>>, None, g, 0, None) : l \in 1..2, g \in 0..2 }

OpsInit ==
    /\ roadmap = EmptyMap
    /\ map0 = EmptyMap
    /\ problem = [start |-> None, goal |-> None]
    /\ alg = "frontier"
    /\ repeat_check = FALSE
    /\ h = <<>>
    /\ pc = "ops"
    /\ \E root \in OpsNodes, sort_by \in {"g", "f"} :
          frontier = Frontier(root, sort_by)
    /\ reachedNodes = <<>>
    /\ returned = <<>>
    /\ node_expansion_count = 0
    /\ popped = <<>>
    /\ last_expand = <<>>

\* what a call on the frontier leaves behind: the call, the fringe it found,
\* its answer, the frontier
OpsCall(op, query, answer, raises, f) ==
    /\ pc = "ops"
    /\ returned' = <<[op |-> op, query |-> query, before |-> frontier.fringe,
                      value |-> answer, raises |-> raises]>>
    /\ frontier' = f
    /\ UNCHANGED <<roadmap, map0, problem, alg, repeat_check, h, pc, reachedNodes,
                   node_expansion_count, popped, last_expand>>

\* frontier.add(node)
ops_add ==
    /\ Len(frontier.fringe) < MaxFringe
    /\ \E n \in OpsNodes : OpsCall("add", <<n>>, <<>>, FALSE, add(frontier, n))

\* frontier[node]
ops_getitem ==
    \E n \in OpsNodes :
        IF KeyError(frontier, n)
        THEN OpsCall("getitem", <<n>>, <<>>, TRUE, frontier)
        ELSE OpsCall("getitem", <<n>>, <<getitem(frontier, n)>>, FALSE, frontier)

\* del frontier[node]: the raise comes before the heapify
ops_delitem ==
    \E n \in OpsNodes :
        IF KeyError(frontier, n)
        THEN OpsCall("delitem", <<n>>, <<>>, TRUE, frontier)
        ELSE OpsCall("delitem", <<n>>, <<>>, FALSE, delitem(frontier, n))

\* frontier.pop()
ops_pop ==
    IF pop_raises(frontier)
    THEN OpsCall("pop", <<>>, <<>>, TRUE, frontier)
    ELSE OpsCall("pop", <<>>, <<pop_node(frontier)>>, FALSE, pop_frontier(frontier))

OpsNext == ops_add \/ ops_delitem \/ ops_getitem \/ ops_pop

SpecFrontierOps == OpsInit /\ [][OpsNext]_vars

\* ------------------------------------------------------------------------
\* A RoadMap on its own: once built, lookups are made on it in any order
\* ------------------------------------------------------------------------

\* the maps asked: a road 1 -> 2, with or without a road 2 -> 4 after it
MapMaps ==
    { BuildMap(NLoc, SmallRoads(a, -1, c, -1, -1)) : a \in {1, MaxCost}, c \in {-1, 1, MaxCost} }

\* the locations asked about: two of the map and one that was never added
MapLocs == {1, 2, NLoc + 1}

\* the road names asked about: two that may be on the map, one that never is
PathRoads == {RoadName(1, 2), RoadName(2, 4), RoadName(4, 4)}

\* the road lists given to path_cost
RoadLists == UNION { [1..n -> PathRoads] : n \in 0..MaxPath }

MapInit ==
    /\ roadmap \in { add_location(m, 1, x, y) : m \in MapMaps, x \in 0..1, y \in 0..1 }
    /\ map0 = roadmap
    /\ problem = [start |-> None, goal |-> None]
    /\ alg = "map"
    /\ repeat_check = FALSE
    /\ h = <<>>
    /\ pc = "built"
    /\ frontier = NoFrontier
    /\ reachedNodes = <<>>
    /\ returned = <<>>
    /\ node_expansion_count = 0
    /\ popped = <<>>
    /\ last_expand = <<>>

\* what a call on the map leaves behind: the call, its answer, the map
MapCall(op, args, answer, raises, m) ==
    /\ pc \in {"built", "asked"}
    /\ pc' = "asked"
    /\ returned' = <<[op |-> op, args |-> args, value |-> answer, raises |-> raises]>>
    /\ roadmap' = m
    /\ UNCHANGED <<map0, problem, alg, repeat_check, h, frontier, reachedNodes,
                   node_expansion_count, popped, last_expand>>

\* roadmap.get(start) and roadmap.get(start, end)
map_get ==
    \E start \in MapLocs, end \in {None} \cup MapLocs :
        MapCall("get", <<start, end>>,
                IF end = None THEN <<get_map(roadmap, start).connection_dict[start]>>
                ELSE <<get(roadmap, start, end)>>,
                FALSE, get_map(roadmap, start))

\* roadmap.get_result(start) and roadmap.get_result(start, road)
map_get_result ==
    \E start \in MapLocs, road \in {None} \cup PathRoads :
        MapCall("get_result", <<start, road>>,
                IF road = None THEN <<get_result_dict(roadmap, start)>>
                ELSE <<get_result(roadmap, start, road)>>,
                FALSE, get_result_map(roadmap, start))

\* roadmap.path_cost(start, road_list)
map_path_cost ==
    \E start \in MapLocs, road_list \in RoadLists :
        LET r == RoadMap_path_cost(roadmap, start, road_list)
        IN  MapCall("path_cost", <<start, road_list>>, <<r.value>>, r.raises, r.map)

\* roadmap.location_coordinates(loc)
map_location_coordinates ==
    \E loc \in MapLocs :
        MapCall("location_coordinates", <<loc>>,
                IF location_coordinates_raises(roadmap, loc) THEN <<>>
                ELSE <<location_coordinates(roadmap, loc)>>,
                location_coordinates_raises(roadmap, loc),
                location_coordinates_map(roadmap, loc))

MapNext == map_get \/ map_get_result \/ map_path_cost \/ map_location_coordinates

SpecMap == MapInit /\ [][MapNext]_vars

\* ------------------------------------------------------------------------
\* The searches
\* ------------------------------------------------------------------------

Init == SearchInit

Next ==
    \/ BFS_begin \/ BFS_loop
    \/ DFS_begin \/ DFS_loop
    \/ ucost_begin \/ ucost_loop
    \/ greedy_begin \/ greedy_loop
    \/ astar_begin \/ astar_loop

Spec == Init /\ [][Next]_vars

\* the searches on the shapes of the small maps (every road of cost 1) and on
\* the long map, without a heuristic table
LiveMaps ==
    { BuildMap(NLoc, SmallRoads(1, b, c, d, e)) :
        b \in {-1, 1}, c \in {-1, 1}, d \in {-1, 1}, e \in {-1, 1} }

LiveInit ==
    /\ \/ /\ roadmap \in LiveMaps
          /\ problem \in [start : 1..NLoc, goal : 1..NLoc]
       \/ /\ roadmap = LongMap
          /\ problem \in [start : {1, 2}, goal : {Far}]
    /\ map0 = roadmap
    /\ alg \in Algorithms
    /\ repeat_check \in BOOLEAN
    /\ h = ZeroTable(roadmap)
    /\ pc = "start"
    /\ frontier = NoFrontier
    /\ reachedNodes = <<>>
    /\ returned = <<>>
    /\ node_expansion_count = 0
    /\ popped = <<>>
    /\ last_expand = <<>>

\* the node the next pop returns
NextNode ==
    IF alg \in {"BFS", "DFS"} THEN queue_pop_node(frontier) ELSE pop_node(frontier)

\* the call has a next step: it has not returned or raised, and the expansion
\* counter is below its cap when the step is an expansion
CanStep ==
    \/ pc = "start"
    \/ /\ pc = "loop"
       /\ \/ is_empty(frontier)
          \/ is_goal(problem, NextNode.loc)
          \/ node_expansion_count < MaxExpansions

\* what every step of a call does to pc and to the expansion counter: one of
\* them changes
Progress ==
    /\ CanStep
    /\ pc' \in {"loop", "done", "TypeError", "KeyError", "Exception"}
    /\ node_expansion_count' \in {node_expansion_count, node_expansion_count + 1}

\* a call runs on: while it has a next step the interpreter takes it (the
\* steps are those of Next; the fairness is stated on what they do to pc and
\* the counter)
LiveSpec == LiveInit /\ [][Next]_vars /\ WF_<<pc, node_expansion_count>>(Progress)

\* ------------------------------------------------------------------------
\* What is true of a map, computed without the searches
\* ------------------------------------------------------------------------

\* the ends of the named roads leaving l
RoadEnds(m, l) ==
    IF l \in DOMAIN m.road_dict
    THEN { m.road_dict[l][i][2] : i \in 1..Len(m.road_dict[l]) }
    ELSE {}

Min(S) == CHOOSE x \in S : \A y \in S : x <= y

\* CostWithin(m, g, k)[l]: the least cost of a path of at most k roads from l
\* to g, NoCost when there is none
\* f, evaluated once at every point of its domain
Tabulated(f) == IF f = f THEN f ELSE f

RECURSIVE CostWithin(_, _, _)
CostWithin(m, g, k) ==
    IF k = 0 THEN [l \in Locations(m) |-> IF l = g THEN 0 ELSE NoCost]
    ELSE LET d == Tabulated(CostWithin(m, g, k - 1))
         IN  [l \in Locations(m) |->
                LET S == (IF d[l] # NoCost THEN {d[l]} ELSE {})
                         \cup { m.connection_dict[l][e] + d[e] :
                                  e \in {x \in RoadEnds(m, l) : d[x] # NoCost} }
                IN  IF S = {} THEN NoCost ELSE Min(S)]

\* the least cost of any path from s to g (costs are not negative, so a
\* cheapest path visits no location twice)
MinCost(m, s, g) == CostWithin(m, g, Cardinality(Locations(m)) - 1)[s]

\* the least cost of a path of at most depth_limit roads
MinCostInLimit(m, s, g) == CostWithin(m, g, depth_limit)[s]

Reachable(m, s, g) == MinCost(m, s, g) # NoCost

ReachableInLimit(m, s, g) == MinCostInLimit(m, s, g) # NoCost

PositiveCosts(m) ==
    \A u \in DOMAIN m.connection_dict : \A v \in DOMAIN m.connection_dict[u] :
        m.connection_dict[u][v] > 0

\* h never exceeds the cheapest remaining cost to the goal
Admissible(m, g, hf) ==
    LET d == CostWithin(m, g, Cardinality(Locations(m)) - 1)
    IN  \A l \in Locations(m) : d[l] # NoCost => hf[l] <= d[l]

\* the location reached by following the named roads from loc, None as soon
\* as a road does not resolve
RECURSIVE Follow(_, _, _)
Follow(m, loc, roads) ==
    IF roads = <<>> THEN loc
    ELSE IF get_result(m, loc, Head(roads)) = None THEN None
    ELSE Follow(m, get_result(m, loc, Head(roads)), Tail(roads))

\* the errors a call can end on
Errors == {"TypeError", "KeyError", "Exception"}

Searching == pc \in {"start", "loop", "done"} \cup Errors

Done == pc = "done"

\* ------------------------------------------------------------------------
\* C1: with strictly positive costs and a reachable goal, uniform_cost_search
\* with repeat_check=True returns a node whose path_cost is the least cost of
\* a path from start to goal.
\* ------------------------------------------------------------------------
C1_UCostRepeatCheckOptimal ==
    (/\ Done /\ alg = "ucost" /\ repeat_check
     /\ PositiveCosts(map0)
     /\ Reachable(map0, problem.start, problem.goal))
    => /\ returned # <<>>
       /\ returned[1].path_cost = MinCost(map0, problem.start, problem.goal)

\* ------------------------------------------------------------------------
\* C2: with strictly positive costs and a reachable goal, uniform_cost_search
\* with repeat_check=False returns a node whose path_cost is the least cost of
\* a path from start to goal.
\* ------------------------------------------------------------------------
C2_UCostOptimal ==
    (/\ Done /\ alg = "ucost" /\ ~repeat_check
     /\ PositiveCosts(map0)
     /\ Reachable(map0, problem.start, problem.goal))
    => /\ returned # <<>>
       /\ returned[1].path_cost = MinCost(map0, problem.start, problem.goal)

\* C2 as amended: with strictly positive costs, uniform_cost_search with
\* repeat_check=False returns a node whose path_cost is the least cost of a
\* path of at most depth_limit roads from start to goal, and None when there
\* is no such path.
C2_UCostOptimalInLimit ==
    (/\ Done /\ alg = "ucost" /\ ~repeat_check
     /\ PositiveCosts(map0))
    => IF ReachableInLimit(map0, problem.start, problem.goal)
       THEN /\ returned # <<>>
            /\ returned[1].path_cost = MinCostInLimit(map0, problem.start, problem.goal)
       ELSE returned = <<>>

\* the search returned a cheapest goal node while a costlier goal node,
\* found along another path, was still waiting in the frontier
C2_Witness ==
    /\ Done /\ alg = "ucost" /\ ~repeat_check
    /\ PositiveCosts(map0)
    /\ returned # <<>>
    /\ returned[1].depth >= 2
    /\ \E i \in 1..Len(frontier.fringe) :
          /\ frontier.fringe[i][2].loc = problem.goal
          /\ frontier.fringe[i][1] > returned[1].path_cost

\* ------------------------------------------------------------------------
\* C3: with strictly positive costs and an admissible heuristic, for each
\* setting of repeat_check, a_star_search and uniform_cost_search both return
\* None or return nodes of the same path_cost.
\* ------------------------------------------------------------------------
C3_AStarAgreesWithUCost ==
    (/\ Done /\ alg = "astar"
     /\ PositiveCosts(map0)
     /\ Admissible(map0, problem.goal, h))
    => LET u == uniform_cost_search(map0, problem, repeat_check)
       IN  /\ (returned = <<>>) <=> (u = <<>>)
           /\ returned # <<>> => returned[1].path_cost = u[1].path_cost

\* ------------------------------------------------------------------------
\* C4: when no path leads from start to goal, each of the five searches, with
\* either repeat_check, returns None and raises no error.
\* ------------------------------------------------------------------------
C4_UnreachableReturnsNone ==
    (Searching /\ ~Reachable(map0, problem.start, problem.goal))
    => /\ pc \notin Errors
       /\ returned = <<>>

\* a search has returned None after it expanded nodes, the goal being out of reach
C4_Witness ==
    /\ Done
    /\ ~Reachable(map0, problem.start, problem.goal)
    /\ returned = <<>>
    /\ node_expansion_count >= 2

\* ------------------------------------------------------------------------
\* C5: a node returned by any of the five searches is at the goal, and its
\* solution(), followed from problem.start through the named roads of the
\* map, resolves at every step and ends at the goal.
\* ------------------------------------------------------------------------
C5_SolutionLeadsToGoal ==
    (Searching /\ returned # <<>>)
    => /\ returned[1].loc = problem.goal
       /\ Follow(map0, problem.start, solution(returned[1])) = problem.goal

\* a node with a solution of two roads or more has been returned
C5_Witness ==
    /\ Done
    /\ returned # <<>>
    /\ Len(solution(returned[1])) >= 2

\* ------------------------------------------------------------------------
\* C6: when problem.start is the goal, each of the five searches returns the
\* root node (at the start, path_cost 0, depth 0, empty solution) and expands
\* no node; BFS and DFS too, whose first goal test is given the Node.
\* ------------------------------------------------------------------------
C6_StartIsGoal ==
    (Done /\ problem.start = problem.goal)
    => /\ returned # <<>>
       /\ returned[1].loc = problem.start
       /\ returned[1].parent = <<>>
       /\ returned[1].path_cost = 0
       /\ returned[1].depth = 0
       /\ solution(returned[1]) = <<>>
       /\ node_expansion_count = 0
       /\ last_expand = <<>>

\* BFS or DFS returned the root: it was popped from the frontier, the first
\* test having failed
C6_Witness ==
    /\ Done /\ problem.start = problem.goal
    /\ alg \in {"BFS", "DFS"}
    /\ returned # <<>>
    /\ Len(popped) = 1

\* ------------------------------------------------------------------------
\* C7: for a Frontier of any metric, after any sequence of adds, the keys of
\* the nodes popped until it is empty never decrease, and among the entries
\* of least key the one of least location is popped first.
\* ------------------------------------------------------------------------

\* (key, loc) of a comes no later than that of b
KeyLocLeq(a, b) == a.key < b.key \/ (a.key = b.key /\ a.loc <= b.loc)

C7_PopOrder ==
    pc = "popping"
    => /\ \A i \in 1..Len(popped) : \A j \in (i + 1)..Len(popped) :
            KeyLocLeq(popped[i], popped[j])
       /\ \A i \in 1..Len(popped) : \A j \in 1..Len(frontier.fringe) :
            KeyLocLeq(popped[i], PopRecord(frontier, frontier.fringe[j][2]))

\* two entries of the least key were popped, the smaller location first, then
\* an entry of a larger key, and the frontier is empty
C7_Witness ==
    /\ pc = "popping"
    /\ Len(popped) >= 3
    /\ popped[1].key = popped[2].key
    /\ popped[1].loc < popped[2].loc
    /\ popped[2].key < popped[3].key
    /\ is_empty(frontier)

\* ------------------------------------------------------------------------
\* C8: expand on a node at the depth limit returns the empty list whatever
\* roads leave its location; so no node of a search is deeper than the limit.
\* ------------------------------------------------------------------------
C8_DepthLimit ==
    Searching
    => /\ (last_expand # <<>> /\ last_expand[1].depth >= depth_limit)
            => last_expand[1].children = 0
       /\ last_expand # <<>> => \A d \in last_expand[1].depths : d <= depth_limit
       /\ \A i \in 1..Len(frontier.fringe) : frontier.fringe[i][2].depth <= depth_limit
       /\ \A i \in 1..Len(reachedNodes) : reachedNodes[i].depth <= depth_limit
       /\ returned # <<>> => returned[1].depth <= depth_limit

\* expand was called on a node at the depth limit whose location has roads
C8_Witness ==
    /\ Searching
    /\ last_expand # <<>>
    /\ last_expand[1].depth = depth_limit
    /\ RoadEnds(map0, last_expand[1].loc) # {}
    /\ last_expand[1].children = 0

\* ------------------------------------------------------------------------
\* C9: each of the five searches terminates on every finite map, with either
\* repeat_check, the goal reachable or not, cycles included.
\* ------------------------------------------------------------------------
C9_Terminates == <>(pc = "done")

\* a search without repeat checks has ended on a map with a cycle after it
\* expanded nodes down to the depth limit
C9_Witness ==
    /\ Done
    /\ ~repeat_check
    /\ Reachable(map0, 1, 2) /\ Reachable(map0, 2, 1)
    /\ \E i \in 1..Len(popped) : popped[i].depth = depth_limit

\* ------------------------------------------------------------------------
\* C10: when the goal can be reached from the start by a path of at most
\* depth_limit roads, each of the five searches, with either repeat_check,
\* returns a goal node rather than None.
\* ------------------------------------------------------------------------
C10_CompleteWithinLimit ==
    (Done /\ ReachableInLimit(map0, problem.start, problem.goal))
    => returned # <<>>

\* C10 as amended: the same for the five searches with repeat_check=False,
\* and for BFS with repeat_check=True.
C10_CompleteWithoutRepeatCheck ==
    (/\ Done
     /\ ReachableInLimit(map0, problem.start, problem.goal)
     /\ (~repeat_check \/ alg = "BFS"))
    => returned # <<>>

\* a goal node exactly depth_limit roads away was returned
C10_Witness ==
    /\ Done
    /\ ~repeat_check
    /\ returned # <<>>
    /\ returned[1].depth = depth_limit

\* ------------------------------------------------------------------------
\* Reading a map without RoadMap's lookups
\* ------------------------------------------------------------------------

\* where the named road leads from loc on the map as built, None when loc has
\* no such road
RoadEnd(m, loc, road) ==
    IF loc \in DOMAIN m.road_dict /\ \E i \in 1..Len(m.road_dict[loc]) : m.road_dict[loc][i][1] = road
    THEN m.road_dict[loc][CHOOSE i \in 1..Len(m.road_dict[loc]) : m.road_dict[loc][i][1] = road][2]
    ELSE None

\* the location after the first k roads of the list, None once one is unresolved
RECURSIVE After(_, _, _, _)
After(m, start, roads, k) ==
    IF k = 0 THEN start
    ELSE LET loc == After(m, start, roads, k - 1)
         IN  IF loc = None THEN None ELSE RoadEnd(m, loc, roads[k])

\* every road of the list resolves in sequence from start
Resolves(m, start, roads) == \A k \in 1..Len(roads) : After(m, start, roads, k) # None

\* the sum of the costs of the first k roads walked
RECURSIVE WalkCost(_, _, _, _)
WalkCost(m, start, roads, k) ==
    IF k = 0 THEN 0
    ELSE WalkCost(m, start, roads, k - 1)
         + m.connection_dict[After(m, start, roads, k - 1)][After(m, start, roads, k)]

\* ------------------------------------------------------------------------
\* C11: path_cost(start, road_list) returns the sum of the costs of the roads
\* walked when every road name of the list resolves in sequence from start,
\* and 0 in every other case: an empty list, an unknown start, a step that
\* does not resolve even after a valid prefix (no partial sum).
\* ------------------------------------------------------------------------
C11_PathCost ==
    (returned # <<>> /\ returned[1].op = "path_cost")
    => LET start == returned[1].args[1]
           roads == returned[1].args[2]
       IN  /\ ~returned[1].raises
           /\ returned[1].value[1] =
                 IF Resolves(map0, start, roads) THEN WalkCost(map0, start, roads, Len(roads))
                 ELSE 0

\* path_cost answered 0 for a list whose first roads resolve at a cost and
\* whose last road does not
C11_Witness ==
    /\ returned # <<>> /\ returned[1].op = "path_cost"
    /\ LET start == returned[1].args[1]
           roads == returned[1].args[2]
       IN  /\ Len(roads) = MaxPath
           /\ Resolves(map0, start, SubSeq(roads, 1, MaxPath - 1))
           /\ WalkCost(map0, start, roads, MaxPath - 1) > 0
           /\ ~Resolves(map0, start, roads)
           /\ returned[1].value[1] = 0

\* path_cost answered the cost of a walk of several roads
C11_WitnessSum ==
    /\ returned # <<>> /\ returned[1].op = "path_cost"
    /\ Len(returned[1].args[2]) >= 2
    /\ Resolves(map0, returned[1].args[1], returned[1].args[2])
    /\ returned[1].value[1] >= 2

\* ------------------------------------------------------------------------
\* C12: the map is immutable once built: no lookup (get, get_result,
\* path_cost, location_coordinates) changes its locations, its costs or its
\* named roads, a lookup of a location that was never added included.
\* ------------------------------------------------------------------------
C12_MapImmutable ==
    pc = "asked" => roadmap = map0

\* ------------------------------------------------------------------------
\* C13: location_coordinates(loc) raises exactly when loc was never added or
\* both components of its coordinates are zero; for an added location with a
\* non-zero component it returns the pair that was added.
\* ------------------------------------------------------------------------
C13_LocationCoordinates ==
    (returned # <<>> /\ returned[1].op = "location_coordinates")
    => LET loc == returned[1].args[1]
           unknown == \/ loc \notin DOMAIN map0.loc_dict
                      \/ map0.loc_dict[loc] = <<0, 0>>
       IN  /\ returned[1].raises <=> unknown
           /\ ~unknown => returned[1].value = <<map0.loc_dict[loc]>>

\* ------------------------------------------------------------------------
\* Counting the entries of a fringe
\* ------------------------------------------------------------------------

\* how many entries of the fringe are the entry e
Count(fringe, e) == Cardinality({ i \in 1..Len(fringe) : fringe[i] = e })

\* the fringe holds an entry at the location of the query
Holds(fringe, query) == \E i \in 1..Len(fringe) : fringe[i][2].loc = query.loc

\* after is before without one copy of its entry i
Without(before, i, after) ==
    /\ Len(after) = Len(before) - 1
    /\ \A j \in 1..Len(before) :
          Count(after, before[j]) = Count(before, before[j]) - (IF before[j] = before[i] THEN 1 ELSE 0)

\* ------------------------------------------------------------------------
\* C14: frontier[node] and del frontier[node] for a node whose location
\* matches no entry raise KeyError and leave the entries as they were; they
\* never succeed silently.
\* ------------------------------------------------------------------------
C14_KeyErrorWhenAbsent ==
    (/\ returned # <<>>
     /\ returned[1].op \in {"getitem", "delitem"}
     /\ ~Holds(returned[1].before, returned[1].query[1]))
    => /\ returned[1].raises
       /\ frontier.fringe = returned[1].before

\* del frontier[node] has raised on a frontier of several entries, none at
\* the node's location
C14_Witness ==
    /\ returned # <<>>
    /\ returned[1].op = "delitem"
    /\ returned[1].raises
    /\ Len(returned[1].before) >= 2
    /\ ~Holds(returned[1].before, returned[1].query[1])
    /\ frontier.fringe = returned[1].before

\* ------------------------------------------------------------------------
\* C20: del frontier[node] on a frontier that holds an entry at the node's
\* location removes exactly one such entry and keeps every other entry, those
\* at the same location included, with its key; and after any interleaving
\* of add, del and pop, pop returns an entry whose key is least among the
\* entries held.
\* ------------------------------------------------------------------------
C20_DeleteKeepsOthersPopIsLeast ==
    returned # <<>> =>
    LET before == returned[1].before
    IN  /\ (returned[1].op = "delitem" /\ Holds(before, returned[1].query[1]))
           => /\ ~returned[1].raises
              /\ \E i \in 1..Len(before) :
                    /\ before[i][2].loc = returned[1].query[1].loc
                    /\ Without(before, i, frontier.fringe)
        /\ (returned[1].op = "pop" /\ before # <<>>)
           => /\ ~returned[1].raises
              /\ \E i \in 1..Len(before) :
                    /\ before[i][2] = returned[1].value[1]
                    /\ \A j \in 1..Len(before) : before[i][1] <= before[j][1]
                    /\ Without(before, i, frontier.fringe)

\* del frontier[node] has removed one of two entries at the node's location
\* that have different keys, from a frontier that also holds another location
C20_Witness ==
    /\ returned # <<>>
    /\ returned[1].op = "delitem"
    /\ ~returned[1].raises
    /\ LET before == returned[1].before
           q == returned[1].query[1]
       IN  /\ \E i, j \in 1..Len(before) :
                /\ before[i][2].loc = q.loc /\ before[j][2].loc = q.loc
                /\ before[i][1] # before[j][1]
           /\ \E i \in 1..Len(before) : before[i][2].loc # q.loc
           /\ Holds(frontier.fringe, q)

\* ------------------------------------------------------------------------
\* C15: in no reachable state of the five searches is pop called on an empty
\* frontier, and no frontier[node] or del frontier[node] is issued for a
\* location the frontier does not hold: the searches never end on the
\* empty-frontier error or on KeyError.
\* ------------------------------------------------------------------------
C15_NoFrontierError ==
    Searching => pc \notin {"Exception", "KeyError"}

\* uniform_cost_search or a_star_search, after several pops from a frontier
\* it had found not empty, has asked frontier[child] for a reached child that
\* the frontier holds
C15_Witness ==
    /\ alg \in {"ucost", "astar"}
    /\ repeat_check
    /\ pc = "loop"
    /\ Len(popped) >= 3
    /\ last_expand # <<>>
    /\ last_expand[1].lookups >= 1

\* ------------------------------------------------------------------------
\* C16: two nodes at the same location are equal and have the same hash,
\* whatever their parent, road, path_cost, heuristic value or depth, and two
\* nodes at different locations are not equal; so whether a node is in the
\* reached list or in the frontier depends on its location alone.
\* ------------------------------------------------------------------------

\* the nodes a search holds
StateNodes ==
    { frontier.fringe[i][2] : i \in 1..Len(frontier.fringe) }
    \cup { reachedNodes[i] : i \in 1..Len(reachedNodes) }
    \cup { returned[i] : i \in 1..Len(returned) }

C16_EqualByLocation ==
    Searching =>
    \A n1 \in StateNodes, n2 \in StateNodes :
        /\ n1.loc = n2.loc
           => /\ NodeEq(n1, n2)
              /\ NodeHash(n1) = NodeHash(n2)
              /\ InList(n1, reachedNodes) <=> InList(n2, reachedNodes)
              /\ contains(frontier, n1) <=> contains(frontier, n2)
        /\ n1.loc # n2.loc => ~NodeEq(n1, n2)

\* a search holds two nodes at one location that differ in parent, road,
\* path_cost and depth, one of them in the reached list, and a node at
\* another location
C16_Witness ==
    /\ Searching
    /\ \E n1 \in StateNodes, n2 \in StateNodes :
          /\ n1.loc = n2.loc
          /\ n1.parent # n2.parent /\ n1.road # n2.road
          /\ n1.path_cost # n2.path_cost /\ n1.depth # n2.depth
          /\ \E i \in 1..Len(reachedNodes) : reachedNodes[i] = n1
          /\ \E i \in 1..Len(frontier.fringe) : frontier.fringe[i][2] = n2
    /\ \E n1 \in StateNodes, n2 \in StateNodes : n1.loc # n2.loc

\* ------------------------------------------------------------------------
\* The least number of roads between two locations
\* ------------------------------------------------------------------------

\* the locations at most k roads away from s
RECURSIVE ReachWithin(_, _, _)
ReachWithin(m, s, k) ==
    IF k = 0 THEN {s}
    ELSE LET R == ReachWithin(m, s, k - 1)
         IN  R \cup UNION { RoadEnds(m, l) : l \in R }

\* the least number of roads of a path from s to g (g is reachable from s)
MinDepth(m, s, g) ==
    Min({ k \in 0..Cardinality(Locations(m)) : g \in ReachWithin(m, s, k) })

\* ------------------------------------------------------------------------
\* C17: when the goal is reachable, BFS, with either repeat_check, returns a
\* goal node whose depth is the least number of roads of a path from start to
\* goal, whatever the costs of the roads.
\* ------------------------------------------------------------------------
C17_BFSShortest ==
    (alg = "BFS" /\ Done /\ Reachable(map0, problem.start, problem.goal))
    => /\ returned # <<>>
       /\ is_goal(problem, returned[1].loc)
       /\ returned[1].depth = MinDepth(map0, problem.start, problem.goal)

\* the same when the goal is at most depth_limit roads away; when it is
\* further, BFS returns None
C17_BFSShortestInLimit ==
    (alg = "BFS" /\ Done /\ Reachable(map0, problem.start, problem.goal))
    => IF MinDepth(map0, problem.start, problem.goal) <= depth_limit
       THEN /\ returned # <<>>
            /\ is_goal(problem, returned[1].loc)
            /\ returned[1].depth = MinDepth(map0, problem.start, problem.goal)
       ELSE returned = <<>>

\* BFS has returned a goal node several roads away that is not the cheapest
C17_Witness ==
    /\ alg = "BFS"
    /\ Done
    /\ returned # <<>>
    /\ returned[1].depth >= 2
    /\ returned[1].depth = MinDepth(map0, problem.start, problem.goal)
    /\ returned[1].path_cost > MinCost(map0, problem.start, problem.goal)

\* ------------------------------------------------------------------------
\* C18: in uniform_cost_search and a_star_search with repeat_check=True, when
\* the location of an expanded child is already reached and the frontier
\* holds an entry at that location whose key is strictly greater than the
\* key of the child, that entry is removed from the frontier and the child is
\* inserted in its place.
\* ------------------------------------------------------------------------
C18_ReplaceOnImprovement ==
    [][ (/\ pc = "loop" /\ pc' = "loop"
         /\ alg \in {"ucost", "astar"}
         /\ repeat_check
         /\ node_expansion_count' = node_expansion_count + 1)
        => LET f1       == pop_frontier(frontier)
               children == expand(pop_node(frontier), roadmap, h)
           IN  \A i \in 1..Len(children) :
                 (/\ InList(children[i], reachedNodes)
                  /\ contains(f1, children[i])
                  /\ getitem(f1, children[i]) > value(children[i], frontier.sort_by))
                 => LET old == f1.fringe[FirstMatch(f1, children[i])]
                        new == <<value(children[i], frontier.sort_by), children[i]>>
                    IN  /\ Count(frontier'.fringe, new) = 1
                        /\ Count(frontier'.fringe, old) = Count(f1.fringe, old) - 1
      ]_vars

\* ------------------------------------------------------------------------
\* C19: in BFS, DFS and greedy_search with repeat_check=True a child is put
\* in the frontier exactly when its location is not yet in the visited list,
\* and is added to the visited list at the same step; so over a run each
\* location is put in the frontier at most once, the first node reached at a
\* location is never replaced, and the location of every frontier entry is
\* in the visited list.
\* ------------------------------------------------------------------------

\* the locations of the nodes of a list, of the entries of a fringe, of the pops
ListLocs(list) == { list[i].loc : i \in 1..Len(list) }

FringeLocs(fringe) == { fringe[i][2].loc : i \in 1..Len(fringe) }

C19_FirstReachedWins ==
    (alg \in {"BFS", "DFS", "greedy"} /\ repeat_check /\ pc \in {"loop", "done"})
    => /\ \A i \in 1..Len(frontier.fringe) :
             \E j \in 1..Len(reachedNodes) : reachedNodes[j] = frontier.fringe[i][2]
       /\ Cardinality(ListLocs(reachedNodes)) = Len(reachedNodes)
       /\ Cardinality(FringeLocs(frontier.fringe)) = Len(frontier.fringe)
       /\ Cardinality(ListLocs(popped)) = Len(popped)
       /\ ListLocs(popped) \cap FringeLocs(frontier.fringe) = {}
       /\ ListLocs(popped) \cup FringeLocs(frontier.fringe) = ListLocs(reachedNodes)
       /\ pc = "loop"
          => \A i \in 1..Len(popped) :
                popped[i].depth < depth_limit
                => RoadEnds(map0, popped[i].loc) \subseteq ListLocs(reachedNodes)

\* the last node expanded had a child at a location that an earlier node had
\* reached: the child was skipped and the first node kept
C19_Witness ==
    /\ alg \in {"BFS", "DFS", "greedy"}
    /\ repeat_check
    /\ pc = "loop"
    /\ last_expand # <<>>
    /\ Len(frontier.fringe) >= 1
    /\ \E i \in 1..Len(reachedNodes) :
          /\ reachedNodes[i].loc \in RoadEnds(map0, last_expand[1].loc)
          /\ reachedNodes[i].parent # <<>>
          /\ reachedNodes[i].parent[1].loc # last_expand[1].loc

\* ------------------------------------------------------------------------
\* C21: in each of the five searches with repeat_check=True the frontier
\* never holds two entries at one location and every location is expanded at
\* most once, so a run calls expand at most as many times as there are
\* locations reachable from the start.
\* ------------------------------------------------------------------------

\* the locations reachable from s
ReachableFrom(m, s) == ReachWithin(m, s, Cardinality(Locations(m)))

C21_OneEntryPerLocation ==
    (Searching /\ repeat_check /\ pc # "start")
    => /\ Cardinality(FringeLocs(frontier.fringe)) = Len(frontier.fringe)
       /\ Cardinality(ListLocs(popped)) = Len(popped)
       /\ node_expansion_count <= Len(popped)
       /\ node_expansion_count <= Cardinality(ReachableFrom(map0, problem.start))

\* a search with repeat checks has expanded every location reachable from the
\* start but the goal, which two roads lead to, and returned the goal node
C21_Witness ==
    /\ repeat_check
    /\ Done
    /\ returned # <<>>
    /\ node_expansion_count = Cardinality(ReachableFrom(map0, problem.start)) - 1
    /\ node_expansion_count >= 3
    /\ \E l1 \in Locations(map0), l2 \in Locations(map0) :
          l1 # l2 /\ problem.goal \in RoadEnds(map0, l1) \cap RoadEnds(map0, l2)

\* ------------------------------------------------------------------------
\* C22: every node created during a search has path_cost equal to
\* map.path_cost(problem.start, node.solution()), depth equal to the length
\* of node.solution(), and a path() that begins at the root, whose location
\* is problem.start; a child's path_cost is its parent's plus the cost of the
\* road taken, and its depth is its parent's plus one.
\* ------------------------------------------------------------------------

\* the children the next pass of the loop creates
NextChildren ==
    IF pc = "loop" /\ ~is_empty(frontier) /\ ~is_goal(problem, NextNode.loc)
    THEN LET children == expand(NextNode, roadmap, h)
         IN  { children[i] : i \in 1..Len(children) }
    ELSE {}

\* the node agrees with the walk of its solution on the map
NodeConsistent(n) ==
    LET roads == solution(n)
        nodes == path(n)
    IN  /\ n.path_cost = RoadMap_path_cost(map0, problem.start, roads).value
        /\ After(map0, problem.start, roads, Len(roads)) = n.loc
        /\ n.depth = Len(roads)
        /\ nodes[1].loc = problem.start
        /\ nodes[1].parent = <<>>
        /\ nodes[Len(nodes)] = n
        /\ n.parent # <<>>
           => /\ n.path_cost = n.parent[1].path_cost + map0.connection_dict[n.parent[1].loc][n.loc]
              /\ n.depth = n.parent[1].depth + 1
              /\ RoadEnd(map0, n.parent[1].loc, n.road) = n.loc

\* the nodes created: the root (the first node of the reached list), the
\* children of each pass as it creates them, and the node returned
CreatedNodes ==
    NextChildren
    \cup (IF reachedNodes # <<>> THEN {Head(reachedNodes)} ELSE {})
    \cup { returned[i] : i \in 1..Len(returned) }

C22_NodeConsistent ==
    Searching => \A n \in CreatedNodes : NodeConsistent(n)

\* the next pass creates the child of a node several roads from the start,
\* at a cost that is not its depth
C22_Witness ==
    /\ Searching
    /\ \E n \in NextChildren :
          /\ n.depth >= 3
          /\ n.path_cost > n.depth
          /\ n.parent[1].path_cost > 0
          /\ NodeConsistent(n)

\* ------------------------------------------------------------------------
\* C23: during a run of uniform_cost_search on a map whose costs are not
\* negative, with either repeat_check, the path_cost of the nodes popped from
\* the frontier never decreases over the run, although children are inserted
\* between the pops.
\* ------------------------------------------------------------------------
NonNegativeCosts(m) ==
    \A u \in DOMAIN m.connection_dict : \A v \in DOMAIN m.connection_dict[u] :
        m.connection_dict[u][v] >= 0

C23_PoppedCostsNeverDecrease ==
    (alg = "ucost" /\ NonNegativeCosts(map0))
    => \A i \in 1..(Len(popped) - 1) : popped[i].path_cost <= popped[i + 1].path_cost

\* uniform_cost_search has popped a deeper node before a shallower one, two
\* nodes of one cost in a row, and costlier nodes later; its frontier is not
\* empty
C23_Witness ==
    /\ alg = "ucost"
    /\ pc = "loop"
    /\ Len(popped) >= 4
    /\ popped[Len(popped)].path_cost > popped[2].path_cost
    /\ \E i \in 1..(Len(popped) - 1) : popped[i].path_cost = popped[i + 1].path_cost
    /\ \E i \in 1..Len(popped), j \in 1..Len(popped) : i < j /\ popped[j].depth < popped[i].depth
    /\ ~is_empty(frontier)

====
